---- MODULE Spec2Model ----
(***************************************************************************)
(* Credential backend (src/main.py): the HTTP handlers read_root, hello,   *)
(* test_database, create_credential and list_credentials over a document   *)
(* store reached through create_document / get_documents.                  *)
(*                                                                         *)
(* Python values are tagged records, so that None, text, instants and      *)
(* object identifiers stay distinct values: None is [type |-> "NoneType"], *)
(* a str is [type |-> "str", s |-> "..."].  A stored document is a         *)
(* function from the names of the fields it HAS to their values; a field   *)
(* the document lacks is not in its DOMAIN (Python's dict).  A call that   *)
(* may raise returns Ok(v) or Raise(text of the exception).                *)
(***************************************************************************)
EXTENDS Integers, Sequences, FiniteSets, TLC

VARIABLES
    store,      \* the database: collection name -> sequence of documents
    db,         \* database.db, the module-level handle (None or a handle)
    request,    \* the request served last
    fault,      \* what the store layer did to the last request's store call
    response,   \* the response to the last request
    submitted   \* history: what each successful POST submitted and was told

vars == <<store, db, request, fault, response, submitted>>

(***************************************************************************)
(* Bounds of the model.                                                    *)
(***************************************************************************)
\* documents the "credential" collection may hold before POST is refused
MaxDocs == 2
\* documents written by other clients that the collection starts with
MaxForeign == 1

(***************************************************************************)
(* Python values.                                                          *)
(***************************************************************************)
None == [type |-> "NoneType"]
Str(s) == [type |-> "str", s |-> s]
ObjectId(n) == [type |-> "ObjectId", n |-> n]
Datetime(y, mo, d, h, mi, sec, us) ==
    [type |-> "datetime", year |-> y, month |-> mo, day |-> d,
     hour |-> h, minute |-> mi, second |-> sec, microsecond |-> us]

Ok(v) == [ok |-> TRUE, v |-> v]
Raise(text) == [ok |-> FALSE, error |-> text]

IsStr(v) == v.type = "str"
IsNone(v) == v.type = "NoneType"

\* bool(v): None and the empty text are false, every other value used here true
Truthy(v) ==
    IF v.type = "NoneType" THEN FALSE
    ELSE IF v.type = "str" THEN v.s /= ""
    ELSE TRUE

\* doc.get(key, default)
Get(doc, key, default) == IF key \in DOMAIN doc THEN doc[key] ELSE default

Min(a, b) == IF a < b THEN a ELSE b

\* seq[:n]
Take(seq, n) == SubSeq(seq, 1, Min(n, Len(seq)))

HexDigits == "0123456789abcdef"
DecDigits == "0123456789"

\* n written in the given base with at least `width` digits, zero-padded
RECURSIVE Digits(_, _, _, _)
Digits(n, base, alphabet, width) ==
    IF width <= 1 /\ n < base
    THEN SubSeq(alphabet, n + 1, n + 1)
    ELSE Digits(n \div base, base, alphabet, IF width > 1 THEN width - 1 ELSE 1)
         \o SubSeq(alphabet, (n % base) + 1, (n % base) + 1)

(***************************************************************************)
(* Conversions to text.                                                    *)
(***************************************************************************)
\* datetime.isoformat(): YYYY-MM-DDTHH:MM:SS, then .ffffff when the
\* microsecond is not zero (stored instants are naive: no offset)
isoformat(dt) ==
    Digits(dt.year, 10, DecDigits, 4) \o "-" \o Digits(dt.month, 10, DecDigits, 2)
    \o "-" \o Digits(dt.day, 10, DecDigits, 2) \o "T"
    \o Digits(dt.hour, 10, DecDigits, 2) \o ":" \o Digits(dt.minute, 10, DecDigits, 2)
    \o ":" \o Digits(dt.second, 10, DecDigits, 2)
    \o (IF dt.microsecond = 0 THEN ""
        ELSE "." \o Digits(dt.microsecond, 10, DecDigits, 6))

\* str(v): an ObjectId prints as 24 hexadecimal digits, None as "None"
PyStr(v) ==
    IF v.type = "str" THEN v.s
    ELSE IF v.type = "NoneType" THEN "None"
    ELSE Digits(v.n, 16, HexDigits, 24)

\* value.isoformat(): only an instant has the method
CallIsoformat(v) ==
    IF v.type = "datetime" THEN Ok(Str(isoformat(v)))
    ELSE Raise("'" \o (IF v.type = "str" THEN "str" ELSE v.type)
               \o "' object has no attribute 'isoformat'")

(***************************************************************************)
(* Regular expressions, as the store evaluates {"$regex": p, "$options":   *)
(* "i"}: an unanchored search of the pattern in the text.  The patterns    *)
(* are those over letters, "." (any character) and the postfix "*" (zero   *)
(* or more of the preceding item); "*" with no item before it is an        *)
(* invalid pattern.                                                        *)
(***************************************************************************)
UpperLetters == "ABCDEFGHIJKLMNOPQRSTUVWXYZ"
LowerLetters == "abcdefghijklmnopqrstuvwxyz"

\* one character, lower-cased
LowerChar(c) ==
    IF \E i \in 1..Len(UpperLetters) : SubSeq(UpperLetters, i, i) = c
    THEN LET i == CHOOSE k \in 1..Len(UpperLetters) : SubSeq(UpperLetters, k, k) = c
         IN SubSeq(LowerLetters, i, i)
    ELSE c

\* text.lower()
RECURSIVE Lower(_)
Lower(t) == IF t = "" THEN "" ELSE LowerChar(Head(t)) \o Lower(Tail(t))

\* needle in haystack (Python's substring test)
Contains(haystack, needle) ==
    \E i \in 0..(Len(haystack) - Len(needle)) :
        SubSeq(haystack, i + 1, i + Len(needle)) = needle

\* needle is a substring of haystack, letter case ignored
ContainsIgnoreCase(haystack, needle) == Contains(Lower(haystack), Lower(needle))

RegexValid(p) ==
    \A i \in 1..Len(p) :
        SubSeq(p, i, i) = "*" => (i > 1 /\ SubSeq(p, i - 1, i - 1) /= "*")

\* pattern item c matches character x
ItemMatches(c, x, ignoreCase) ==
    \/ c = "."
    \/ c = x
    \/ ignoreCase /\ LowerChar(c) = LowerChar(x)

\* pattern p matches a prefix of text t
RECURSIVE MatchHere(_, _, _)
MatchHere(p, t, ignoreCase) ==
    IF p = "" THEN TRUE
    ELSE IF Len(p) >= 2 /\ SubSeq(p, 2, 2) = "*"
    THEN \E k \in 0..Len(t) :
            /\ \A m \in 1..k : ItemMatches(Head(p), SubSeq(t, m, m), ignoreCase)
            /\ MatchHere(SubSeq(p, 3, Len(p)), SubSeq(t, k + 1, Len(t)), ignoreCase)
    ELSE /\ t /= ""
         /\ ItemMatches(Head(p), Head(t), ignoreCase)
         /\ MatchHere(Tail(p), Tail(t), ignoreCase)

\* unanchored search
RegexSearch(p, t, ignoreCase) ==
    \E i \in 0..Len(t) : MatchHere(p, SubSeq(t, i + 1, Len(t)), ignoreCase)

(***************************************************************************)
(* The document store gateway (database.py): create_document and           *)
(* get_documents over the collections of one database.                     *)
(***************************************************************************)
CollectionNames == <<"credential", "other">>

Without(doc, key) == [k \in DOMAIN doc \ {key} |-> doc[k]]
With(doc, key, value) ==
    [k \in DOMAIN doc \cup {key} |-> IF k = key THEN value ELSE doc[k]]

RECURSIVE MaxOid(_)
MaxOid(docs) ==
    IF Len(docs) = 0 THEN 0
    ELSE LET rest == MaxOid(Tail(docs))
         IN IF Head(docs)["_id"].n > rest THEN Head(docs)["_id"].n ELSE rest

\* the identifier the store assigns next: one no stored document has
NewObjectId(st) ==
    LET a == MaxOid(st["credential"])
        b == MaxOid(st["other"])
    IN ObjectId((IF a > b THEN a ELSE b) + 1)

\* create_document(collection, record): the record's fields, stamped with
\* created_at/updated_at when the gateway stamps (stamp is then the instant,
\* else None), inserted under a new identifier, which is returned as text.
\* flt is the error of the store for this call, or None.
create_document(st, handle, collection, record, stamp, flt) ==
    IF IsNone(handle) THEN [ret |-> Raise("Database not available"), store |-> st]
    ELSE IF ~IsNone(flt) THEN [ret |-> Raise(PyStr(flt)), store |-> st]
    ELSE LET oid == NewObjectId(st)
             stamped == IF IsNone(stamp) THEN record
                        ELSE With(With(record, "created_at", stamp), "updated_at", stamp)
             doc == With(stamped, "_id", oid)
         IN [ret |-> Ok(PyStr(oid)),
             store |-> [st EXCEPT ![collection] = Append(@, doc)]]

\* one {"field": {"$regex": p, "$options": o}} clause against a document:
\* the field is there, is text, and the pattern is found in it
ClauseMatches(clause, doc) ==
    \E f \in DOMAIN clause :
        /\ f \in DOMAIN doc
        /\ IsStr(doc[f])
        /\ RegexSearch(clause[f]["$regex"], doc[f].s,
                       Contains(clause[f]["$options"], "i"))

\* a filter is {} (every document) or {"$or": [clause, ...]}
FilterMatches(filter, doc) ==
    IF DOMAIN filter = {} THEN TRUE
    ELSE \E i \in 1..Len(filter["$or"]) : ClauseMatches(filter["$or"][i], doc)

FilterValid(filter) ==
    IF DOMAIN filter = {} THEN TRUE
    ELSE \A i \in 1..Len(filter["$or"]) :
            \A f \in DOMAIN filter["$or"][i] : RegexValid(filter["$or"][i][f]["$regex"])

\* get_documents(collection, filter): the matching documents, in the
\* store's order
get_documents(st, handle, collection, filter, flt) ==
    IF IsNone(handle) THEN Raise("Database not available")
    ELSE IF ~IsNone(flt) THEN Raise(PyStr(flt))
    ELSE IF ~FilterValid(filter) THEN Raise("Regular expression is invalid")
    ELSE Ok(SelectSeq(st[collection], LAMBDA d : FilterMatches(filter, d)))

\* db.list_collection_names(): the collections that hold documents
list_collection_names(st, flt) ==
    IF ~IsNone(flt) THEN Raise(PyStr(flt))
    ELSE Ok(SelectSeq(CollectionNames, LAMBDA c : Len(st[c]) > 0))

(***************************************************************************)
(* schemas.CredentialOut: construction validates the field types.          *)
(***************************************************************************)
TextFields == {"id", "title", "username", "password"}
OptionalTextFields == {"url", "note", "created_at", "updated_at"}

InvalidFields(kw) ==
    {f \in TextFields : ~IsStr(kw[f])}
    \cup {f \in OptionalTextFields : ~(IsStr(kw[f]) \/ IsNone(kw[f]))}

CredentialOut(kw) ==
    LET n == Cardinality(InvalidFields(kw))
    IN IF n = 0 THEN Ok(kw)
       ELSE Raise(Digits(n, 10, DecDigits, 1) \o " validation error"
                  \o (IF n = 1 THEN "" ELSE "s") \o " for CredentialOut")

(***************************************************************************)
(* The HTTP service (src/main.py).  The marks of the diagnostic texts are  *)
(* written in ASCII: [ok] for the check mark, [x] for the cross, [!] for   *)
(* the warning sign.                                                       *)
(***************************************************************************)
\* raise HTTPException(status_code, detail)
HTTPException(status_code, detail) ==
    [status |-> status_code, body |-> [detail |-> detail]]

\* GET /
read_root == [status |-> 200, body |-> [message |-> "Hello from FastAPI Backend!"]]

\* GET /api/hello
hello == [status |-> 200, body |-> [message |-> "Hello from the backend API!"]]

\* probe_listing whose except branch forgets to report the error
probe_listing_silent(available, listed) ==
    IF listed.ok
    THEN [available EXCEPT !.collections = Take(listed.v, 10),
                           !.database = "[ok] Connected & Working"]
    ELSE available

\* the inner try of GET /test: list the collections of a handle that is
\* there; `available` is the payload so far, `listed` what
\* db.list_collection_names() did
probe_listing(available, listed) ==
    IF listed.ok
    THEN [available EXCEPT !.collections = Take(listed.v, 10),
                           !.database = "[ok] Connected & Working"]
    ELSE [available EXCEPT !.database =
            "[!]  Connected but Error: " \o Take(listed.error, 50)]

\* GET /test.  imp is what `from database import db` does ("ok",
\* "ImportError" or "Exception", the latter raising the text of flt), flt
\* the error of list_collection_names or None, url_set/name_set whether
\* DATABASE_URL / DATABASE_NAME are set to a non-empty value.
test_database(st, handle, imp, flt, url_set, name_set) ==
    LET initial == [backend |-> "[ok] Running",
                    database |-> "[x] Not Available",
                    database_url |-> None,
                    database_name |-> None,
                    connection_status |-> "Not Connected",
                    collections |-> <<>>]
        available == [initial EXCEPT
                        !.database = "[ok] Available",
                        !.database_url = Str("[ok] Configured"),
                        !.database_name = Str(handle.name),
                        !.connection_status = "Connected"]
        probed ==
            IF imp = "ImportError"
            THEN [initial EXCEPT !.database =
                    "[x] Database module not found (run enable-database first)"]
            ELSE IF imp = "Exception"
            THEN [initial EXCEPT !.database = "[x] Error: " \o Take(PyStr(flt), 50)]
            ELSE IF IsNone(handle)
            THEN [initial EXCEPT !.database = "[!]  Available but not initialized"]
            ELSE probe_listing(available, list_collection_names(st, flt))
    IN [status |-> 200,
        body |-> [probed EXCEPT
                    !.database_url = Str(IF url_set THEN "[ok] Set" ELSE "[x] Not Set"),
                    !.database_name = Str(IF name_set THEN "[ok] Set" ELSE "[x] Not Set")]]

\* create_credential that answers a failed insertion with a fixed text
create_credential_generic(st, handle, credential, stamp, flt) ==
    LET call == create_document(st, handle, "credential", credential, stamp, flt)
    IN [response |-> IF call.ret.ok
                     THEN [status |-> 200, body |-> [id |-> call.ret.v]]
                     ELSE HTTPException(500, "Internal Server Error"),
        store |-> call.store]

\* create_credential that writes to another collection
create_credential_elsewhere(st, handle, credential, stamp, flt) ==
    LET call == create_document(st, handle, "other", credential, stamp, flt)
    IN [response |-> IF call.ret.ok
                     THEN [status |-> 200, body |-> [id |-> call.ret.v]]
                     ELSE HTTPException(500, call.ret.error),
        store |-> call.store]

\* create_credential as an upsert: a stored record of the same title is
\* replaced by the new one
create_credential_upsert(st, handle, credential, stamp, flt) ==
    LET call == create_document(st, handle, "credential", credential, stamp, flt)
        added == call.store["credential"][Len(call.store["credential"])]
        same(d) == Get(d, "title", None) = credential.title
    IN [response |-> IF call.ret.ok
                     THEN [status |-> 200, body |-> [id |-> call.ret.v]]
                     ELSE HTTPException(500, call.ret.error),
        store |-> IF call.ret.ok /\ \E i \in 1..Len(st["credential"]) :
                                      same(st["credential"][i])
                  THEN [st EXCEPT !["credential"] =
                          [i \in 1..Len(@) |-> IF same(@[i]) THEN added ELSE @[i]]]
                  ELSE call.store]

\* POST /api/credentials: the response and the store after it
create_credential(st, handle, credential, stamp, flt) ==
    LET call == create_document(st, handle, "credential", credential, stamp, flt)
    IN [response |-> IF call.ret.ok
                     THEN [status |-> 200, body |-> [id |-> call.ret.v]]
                     ELSE HTTPException(500, call.ret.error),
        store |-> call.store]

\* the filter list_credentials builds from q
filter_query(q) ==
    IF Truthy(q)
    THEN ("$or" :> << ("title" :> ("$regex" :> q.s @@ "$options" :> "i")),
                      ("username" :> ("$regex" :> q.s @@ "$options" :> "i")) >>)
    ELSE <<>>

\* doc.get(key).isoformat() if doc.get(key) else None
TimestampOut(doc, key) ==
    IF Truthy(Get(doc, key, None)) THEN CallIsoformat(Get(doc, key, None))
    ELSE Ok(None)

\* to_out that reads the title under another key
to_out_misnamed(doc) ==
    LET created == TimestampOut(doc, "created_at")
        updated == TimestampOut(doc, "updated_at")
    IN IF ~created.ok THEN created
       ELSE IF ~updated.ok THEN updated
       ELSE CredentialOut([id |-> Str(PyStr(Get(doc, "_id", None))),
                           title |-> Get(doc, "name", Str("")),
                           username |-> Get(doc, "username", Str("")),
                           password |-> Get(doc, "password", Str("")),
                           url |-> Get(doc, "url", None),
                           note |-> Get(doc, "note", None),
                           created_at |-> created.v,
                           updated_at |-> updated.v])

\* to_out whose default for a missing title is a placeholder text
to_out_placeholder(doc) ==
    LET created == TimestampOut(doc, "created_at")
        updated == TimestampOut(doc, "updated_at")
    IN IF ~created.ok THEN created
       ELSE IF ~updated.ok THEN updated
       ELSE CredentialOut([id |-> Str(PyStr(Get(doc, "_id", None))),
                           title |-> Get(doc, "title", Str("untitled")),
                           username |-> Get(doc, "username", Str("")),
                           password |-> Get(doc, "password", Str("")),
                           url |-> Get(doc, "url", None),
                           note |-> Get(doc, "note", None),
                           created_at |-> created.v,
                           updated_at |-> updated.v])

\* to_out(doc): the arguments are evaluated in order, then CredentialOut
\* validates them
to_out(doc) ==
    LET created == TimestampOut(doc, "created_at")
        updated == TimestampOut(doc, "updated_at")
    IN IF ~created.ok THEN created
       ELSE IF ~updated.ok THEN updated
       ELSE CredentialOut([id |-> Str(PyStr(Get(doc, "_id", None))),
                           title |-> Get(doc, "title", Str("")),
                           username |-> Get(doc, "username", Str("")),
                           password |-> Get(doc, "password", Str("")),
                           url |-> Get(doc, "url", None),
                           note |-> Get(doc, "note", None),
                           created_at |-> created.v,
                           updated_at |-> updated.v])

\* the mapping, collected in reverse
RECURSIVE MapToOutReversed(_)
MapToOutReversed(docs) ==
    IF Len(docs) = 0 THEN Ok(<<>>)
    ELSE LET first == to_out(Head(docs))
         IN IF ~first.ok THEN first
            ELSE LET rest == MapToOutReversed(Tail(docs))
                 IN IF ~rest.ok THEN rest ELSE Ok(rest.v \o <<first.v>>)

\* the mapping, skipping the documents that raise
RECURSIVE MapToOutSkipping(_)
MapToOutSkipping(docs) ==
    IF Len(docs) = 0 THEN Ok(<<>>)
    ELSE LET first == to_out(Head(docs))
             rest == MapToOutSkipping(Tail(docs))
         IN IF ~first.ok THEN rest ELSE Ok(<<first.v>> \o rest.v)

\* [to_out(d) for d in docs]: the first document that raises ends it
RECURSIVE MapToOut(_)
MapToOut(docs) ==
    IF Len(docs) = 0 THEN Ok(<<>>)
    ELSE LET first == to_out(Head(docs))
         IN IF ~first.ok THEN first
            ELSE LET rest == MapToOut(Tail(docs))
                 IN IF ~rest.ok THEN rest ELSE Ok(<<first.v>> \o rest.v)

\* GET /api/credentials?q=
list_credentials(st, handle, q, flt) ==
    LET docs == get_documents(st, handle, "credential", filter_query(q), flt)
    IN IF ~docs.ok THEN HTTPException(500, docs.error)
       ELSE LET outs == MapToOut(docs.v)
            IN IF ~outs.ok THEN HTTPException(500, outs.error)
               ELSE [status |-> 200, body |-> outs.v]

(***************************************************************************)
(* Inputs.                                                                 *)
(***************************************************************************)
\* Credential payloads that pass the framework's validation
Credentials ==
    { [title |-> Str("ab*c"), username |-> Str("Bob"), password |-> Str("p@ss"),
       url |-> Str("https://github.com"), note |-> None],
      [title |-> Str("Mail"), username |-> Str("a.b"), password |-> Str(""),
       url |-> None, note |-> Str("n")] }

\* q: absent (None) or a text
Queries ==
    {None} \cup {Str(t) : t \in {"", "AB", ".", "a*", "*", "ab*c", "zz"}}

\* the store layer's error for one call; None is a call that works
StoreErrors == {Str("connection closed")}
Faults == {None} \cup StoreErrors

\* errors met by the diagnostic endpoint: one is longer than the 50
\* characters it reports
ProbeErrors ==
    StoreErrors
    \cup {Str("localhost:27017: [Errno 111] Connection refused, Timeout: 30s")}

\* whether DATABASE_URL and DATABASE_NAME are set
Environments ==
    {[url_set |-> TRUE, name_set |-> FALSE], [url_set |-> FALSE, name_set |-> TRUE]}

\* the gateway's clock when it stamps a document; None when it does not
Stamps == {None, Datetime(2024, 3, 9, 7, 5, 0, 0)}

\* documents of other writers: the fields are optional per document
FullDoc ==
    [title |-> Str("Ab"), username |-> Str("x.y"), password |-> Str("pw"),
     url |-> Str("u"), note |-> Str("n"),
     created_at |-> Datetime(2023, 12, 31, 23, 59, 58, 123000),
     updated_at |-> Datetime(2024, 1, 2, 3, 4, 5, 0)]

ForeignDocs ==
    {FullDoc, <<>>,
     Without(With(FullDoc, "created_at", Str("")), "title"),
     With(FullDoc, "title", None),
     With(FullDoc, "updated_at", Str("yesterday"))}

Handle == [type |-> "Database", name |-> "appdb"]

(***************************************************************************)
(* The state machine: one action per request.                              *)
(***************************************************************************)
Init ==
    /\ \E n \in 0..MaxForeign :
          \E f \in [1..n -> ForeignDocs] :
             store = [c \in {"credential", "other"} |->
                        IF c = "credential"
                        THEN [i \in 1..n |-> With(f[i], "_id", ObjectId(i))]
                        ELSE << [_id |-> ObjectId(n + 1)] >>]
    /\ db \in {None, Handle}
    /\ request = [route |-> "none"]
    /\ fault = None
    /\ response = [status |-> 0]
    /\ submitted = {}

ReadRoot ==
    /\ request' = [route |-> "GET /"]
    /\ response' = read_root
    /\ fault' = None
    /\ UNCHANGED <<store, db, submitted>>

Hello ==
    /\ request' = [route |-> "GET /api/hello"]
    /\ response' = hello
    /\ fault' = None
    /\ UNCHANGED <<store, db, submitted>>

TestDatabase ==
    \E imp \in {"ok", "ImportError", "Exception"}, env \in Environments :
      \E flt \in (IF imp = "Exception" THEN ProbeErrors \ StoreErrors
                  ELSE IF imp = "ok" /\ ~IsNone(db) THEN {None} \cup ProbeErrors
                  ELSE {None}) :
        /\ request' = [route |-> "GET /test", imp |-> imp]
        /\ response' = test_database(store, db, imp, flt, env.url_set, env.name_set)
        /\ fault' = flt
        /\ UNCHANGED <<store, db, submitted>>

CreateCredential ==
    /\ Len(store["credential"]) < MaxDocs
    /\ \E credential \in Credentials, stamp \in Stamps :
         \E flt \in (IF IsNone(db) THEN {None} ELSE Faults) :
           LET done == create_credential(store, db, credential, stamp, flt)
           IN /\ request' = [route |-> "POST /api/credentials",
                             credential |-> credential]
              /\ response' = done.response
              /\ store' = done.store
              /\ fault' = flt
              /\ submitted' =
                   IF done.response.status = 200
                   THEN submitted \cup {[id |-> done.response.body.id,
                                         title |-> credential.title.s,
                                         username |-> credential.username.s]}
                   ELSE submitted
              /\ UNCHANGED db

ListCredentials ==
    \E q \in Queries :
      \E flt \in (IF IsNone(db) THEN {None} ELSE Faults) :
        /\ request' = [route |-> "GET /api/credentials", q |-> q]
        /\ response' = list_credentials(store, db, q, flt)
        /\ fault' = flt
        /\ UNCHANGED <<store, db, submitted>>

Next ==
    \/ ReadRoot
    \/ Hello
    \/ TestDatabase
    \/ CreateCredential
    \/ ListCredentials

Spec == Init /\ [][Next]_vars

(***************************************************************************)
(* Properties.                                                             *)
(***************************************************************************)
IsCreate(req) == req.route = "POST /api/credentials"
IsList(req) == req.route = "GET /api/credentials"
IsTest(req) == req.route = "GET /test"

\* the store call of the last request could not be served
StoreFailed == IsNone(db) \/ ~IsNone(fault)

\* the text of the store layer's error for the last request
StoreErrorText == IF IsNone(db) THEN "Database not available" ELSE PyStr(fault)

DiagnosticKeys ==
    {"backend", "database", "database_url", "database_name",
     "connection_status", "collections"}

\* GET /test could not reach the store
Unreachable == request.imp /= "ok" \/ StoreFailed

\* C7: GET /test always answers 200 with the six-field object; when the
\* store is unreachable (handle missing, module not importable, listing
\* fails) database reports an error or unavailable state, never
\* "Connected & Working", and collections is empty.
C7_DiagnosticNeverFails ==
    IsTest(request) =>
        /\ response.status = 200
        /\ DOMAIN response.body = DiagnosticKeys
        /\ response.body.backend = "[ok] Running"
        /\ Unreachable =>
              /\ SubSeq(response.body.database, 1, 3) \in {"[x]", "[!]"}
              /\ response.body.database /= "[ok] Connected & Working"
              /\ response.body.collections = <<>>
        /\ ~Unreachable => response.body.database = "[ok] Connected & Working"

\* the handle is there and listing the collections failed with a long error
C7_Witness ==
    /\ IsTest(request)
    /\ request.imp = "ok"
    /\ ~IsNone(db)
    /\ ~IsNone(fault)
    /\ Len(PyStr(fault)) > 50
    /\ response.status = 200
    /\ Len(response.body.database) = Len("[!]  Connected but Error: ") + 50

\* C3: a POST whose insertion fails at the store layer answers 500 with the
\* text of the store's error as detail and leaves every collection as it
\* was, so that no later list can return a record of it.
C3_FailedCreateLeavesStore ==
    [][(IsCreate(request') /\ StoreFailed') =>
          /\ response'.status = 500
          /\ DOMAIN response'.body = {"detail"}
          /\ response'.body.detail = StoreErrorText'
          /\ store' = store
          /\ submitted' = submitted]_vars

\* a POST failed at the store while the collection already held a record
C3_Witness ==
    /\ IsCreate(request)
    /\ ~IsNone(db)
    /\ ~IsNone(fault)
    /\ response.status = 500
    /\ response.body.detail = PyStr(fault)
    /\ submitted /= {}

\* C4: a successful POST appends exactly one document to "credential",
\* holding the submitted fields under an identifier no stored document had,
\* changes no other collection and no existing document, and answers with
\* that identifier as text under the key id and nothing else.
C4_CreateAddsOne ==
    [][(IsCreate(request') /\ response'.status = 200) =>
          LET old == store["credential"]
              new == store'["credential"]
          IN /\ Len(new) = Len(old) + 1
             /\ SubSeq(new, 1, Len(old)) = old
             /\ store'["other"] = store["other"]
             /\ DOMAIN response'.body = {"id"}
             /\ response'.body.id = PyStr(new[Len(new)]["_id"])
             /\ Len(response'.body.id) = 24
             /\ \A c \in {"credential", "other"} : \A i \in 1..Len(store[c]) :
                    store[c][i]["_id"] /= new[Len(new)]["_id"]
             /\ \A f \in DOMAIN request'.credential :
                    new[Len(new)][f] = request'.credential[f]]_vars

\* a second successful POST, after a first one
C4_Witness ==
    /\ IsCreate(request)
    /\ response.status = 200
    /\ Cardinality(submitted) = 2
    /\ Len(store["credential"]) = 2

\* the store refuses the query of a list request: no handle, an error of
\* the store, or a q that is no valid pattern
QueryFailed(q) == StoreFailed \/ (Truthy(q) /\ ~RegexValid(q.s))

QueryErrorText(q) ==
    IF StoreFailed THEN StoreErrorText ELSE "Regular expression is invalid"

\* the stored value of a timestamp field can be formatted or is skipped
TimestampReadable(doc, key) ==
    \/ ~Truthy(Get(doc, key, None))
    \/ Get(doc, key, None).type = "datetime"

\* the document's fields have the types CredentialOut accepts
Mappable(doc) ==
    /\ TimestampReadable(doc, "created_at")
    /\ TimestampReadable(doc, "updated_at")
    /\ \A f \in {"title", "username", "password"} : IsStr(Get(doc, f, Str("")))
    /\ \A f \in {"url", "note"} : IsStr(Get(doc, f, None)) \/ IsNone(Get(doc, f, None))

AllMappable(docs) == \A i \in 1..Len(docs) : Mappable(docs[i])

\* the record of a list response that stands for a stored document
Shows(out, doc) == out.id = Str(PyStr(doc["_id"]))

\* C1: a successful POST returns a non-empty identifier, and every later
\* list request without q that succeeds returns a record with that
\* identifier and the submitted title and username; it succeeds whenever
\* the store serves it and every stored document has well-typed fields.
C1_CreatedIsListed ==
    /\ (IsCreate(request) /\ response.status = 200) =>
          /\ response.body.id /= ""
          /\ [id |-> response.body.id,
              title |-> request.credential.title.s,
              username |-> request.credential.username.s] \in submitted
    /\ (IsList(request) /\ IsNone(request.q)) =>
          /\ (~StoreFailed /\ AllMappable(store["credential"])) => response.status = 200
          /\ response.status = 200 =>
                \A s \in submitted :
                    \E i \in 1..Len(response.body) :
                        /\ response.body[i].id = Str(s.id)
                        /\ response.body[i].title = Str(s.title)
                        /\ response.body[i].username = Str(s.username)

\* an unfiltered list that succeeds after two successful POSTs
C1_Witness ==
    /\ IsList(request)
    /\ IsNone(request.q)
    /\ response.status = 200
    /\ Cardinality(submitted) = 2
    /\ Len(response.body) = 2

\* C8: a list request without q uses the match-all filter, and when it
\* succeeds returns one record per document of "credential", in the
\* store's order: none dropped, duplicated or reordered.
C8_ListAllInOrder ==
    (IsList(request) /\ IsNone(request.q)) =>
        /\ DOMAIN filter_query(request.q) = {}
        /\ (~StoreFailed /\ AllMappable(store["credential"])) => response.status = 200
        /\ response.status = 200 =>
              /\ Len(response.body) = Len(store["credential"])
              /\ \A i \in 1..Len(response.body) :
                    Shows(response.body[i], store["credential"][i])

\* an unfiltered list of a foreign document followed by a created one
C8_Witness ==
    /\ IsList(request)
    /\ IsNone(request.q)
    /\ response.status = 200
    /\ Len(response.body) = 2
    /\ Cardinality(submitted) = 1
    /\ response.body[1].id /= response.body[2].id

OutKeys ==
    {"id", "title", "username", "password", "url", "note",
     "created_at", "updated_at"}

\* the stored documents a record of a list response stands for
Shown(out) ==
    {i \in 1..Len(store["credential"]) : Shows(out, store["credential"][i])}

\* C5: every record of a successful list response has all the keys; title,
\* username and password are text, the empty text when the stored document
\* lacks the field; url, note, created_at and updated_at are text or null,
\* null when the stored document lacks the field.
C5_RecordsAreComplete ==
    (IsList(request) /\ response.status = 200) =>
        \A i \in 1..Len(response.body) :
            LET out == response.body[i]
            IN /\ DOMAIN out = OutKeys
               /\ \A f \in {"id", "title", "username", "password"} : IsStr(out[f])
               /\ \A f \in {"url", "note", "created_at", "updated_at"} :
                      IsStr(out[f]) \/ IsNone(out[f])
               /\ Cardinality(Shown(out)) = 1
               /\ \A j \in Shown(out) :
                      LET doc == store["credential"][j]
                      IN /\ \A f \in {"title", "username", "password"} :
                               f \notin DOMAIN doc => out[f] = Str("")
                         /\ \A f \in {"url", "note", "created_at", "updated_at"} :
                               f \notin DOMAIN doc => out[f] = None
                         /\ \A f \in {"title", "username", "password", "url", "note"} :
                               f \in DOMAIN doc => out[f] = doc[f]

\* a successful list shows a document that has none of the fields
C5_Witness ==
    /\ IsList(request)
    /\ response.status = 200
    /\ \E i \in 1..Len(response.body) :
          /\ response.body[i].title = Str("")
          /\ response.body[i].password = Str("")
          /\ IsNone(response.body[i].created_at)
          /\ \E j \in Shown(response.body[i]) :
                DOMAIN store["credential"][j] = {"_id"}

\* the documents the store returns for q when it serves the query
Matching(q) == SelectSeq(store["credential"], LAMBDA d : FilterMatches(filter_query(q), d))

\* the first document of docs that cannot be mapped
FirstUnmappable(docs) ==
    docs[CHOOSE i \in 1..Len(docs) :
            ~Mappable(docs[i]) /\ \A j \in 1..(i - 1) : Mappable(docs[j])]

\* the text of the error raised while mapping doc
MappingErrorText(doc) ==
    IF ~TimestampReadable(doc, "created_at") \/ ~TimestampReadable(doc, "updated_at")
    THEN "'str' object has no attribute 'isoformat'"
    ELSE "1 validation error for CredentialOut"

\* the last request's query: whether the store refused it, the error's
\* text, and the documents returned
LastQueryFailed == QueryFailed(request.q)
LastQueryError == QueryErrorText(request.q)
Returned == Matching(request.q)

\* C9: a list request changes nothing in the store; when the store query
\* fails, or mapping one of the returned documents fails, the response is
\* 500 with the text of that error as detail and no list; a response that
\* is a list holds every returned document.
C9_ListFailsWhole ==
    [][IsList(request') =>
          \A failed \in {LastQueryFailed'} :
          \A returned \in {IF failed THEN <<>> ELSE Returned'} :
             /\ store' = store
             /\ submitted' = submitted
             /\ response'.status \in {200, 500}
             /\ failed =>
                   response' = [status |-> 500, body |-> [detail |-> LastQueryError']]
             /\ (~failed /\ ~AllMappable(returned)) =>
                   response' = [status |-> 500,
                                body |-> [detail |->
                                            MappingErrorText(FirstUnmappable(returned))]]
             /\ response'.status = 200 => Len(response'.body) = Len(returned)]_vars

\* a list failed while mapping the first of two returned documents
C9_Witness ==
    /\ IsList(request)
    /\ ~LastQueryFailed
    /\ response.status = 500
    /\ Len(Returned) = 2
    /\ ~Mappable(Returned[1])
    /\ Mappable(Returned[2])

\* a list failed at the store: q is no valid pattern
C9_WitnessQuery ==
    /\ IsList(request)
    /\ ~StoreFailed
    /\ LastQueryFailed
    /\ response.status = 500

\* every document of collection c is kept, in place and unchanged, by a step
Kept(c) ==
    /\ Len(store'[c]) >= Len(store[c])
    /\ SubSeq(store'[c], 1, Len(store[c])) = store[c]

\* the record a successful POST created is stored as it was submitted
Stored(s) ==
    \E i \in 1..Len(store["credential"]) :
        LET doc == store["credential"][i]
        IN /\ PyStr(doc["_id"]) = s.id
           /\ doc["title"] = Str(s.title)
           /\ doc["username"] = Str(s.username)

\* C10: no request changes or removes a stored document: every request
\* other than POST leaves the store as it is, a POST keeps every existing
\* document, and every record once created stays stored under the same
\* identifier with the same field values.
C10_RecordsAreImmutable ==
    /\ [][/\ \A c \in {"credential", "other"} : Kept(c)
          /\ ~IsCreate(request') => store' = store
          /\ \A s \in submitted : s \in submitted']_vars
    /\ [](\A s \in submitted : Stored(s))

\* a second POST of the same title succeeded and the first record is
\* still stored
C10_Witness ==
    /\ IsCreate(request)
    /\ response.status = 200
    /\ Cardinality(submitted) = 2
    /\ \A s \in submitted : s.title = request.credential.title.s
    /\ \A s \in submitted : Stored(s)

\* what the claims say a stored timestamp is shown as: ISO-8601 text for
\* an instant, null for everything else
TimestampShown(doc, key) ==
    IF key \in DOMAIN doc /\ doc[key].type = "datetime"
    THEN Str(isoformat(doc[key]))
    ELSE None

\* the fields of doc other than the timestamps have accepted types
OtherFieldsMappable(doc) ==
    /\ \A f \in {"title", "username", "password"} : IsStr(Get(doc, f, Str("")))
    /\ \A f \in {"url", "note"} : IsStr(Get(doc, f, None)) \/ IsNone(Get(doc, f, None))

\* C6: created_at and updated_at are shown as ISO-8601 text when the stored
\* value is an instant and as null in every other case, and a stored
\* timestamp that is no instant never makes the list request fail.
C6_TimestampsNeverFail ==
    (IsList(request) /\ ~LastQueryFailed) =>
        \A returned \in {Returned} :
            (\A i \in 1..Len(returned) : OtherFieldsMappable(returned[i])) =>
                /\ response.status = 200
                /\ Len(response.body) = Len(returned)
                /\ \A i \in 1..Len(returned) :
                      \A key \in {"created_at", "updated_at"} :
                          response.body[i][key] = TimestampShown(returned[i], key)

\* the document is a credential: it has a title and a username, both text
IsCredential(doc) ==
    \A f \in {"title", "username"} : f \in DOMAIN doc /\ IsStr(doc[f])

\* q is a substring, in any letter case, of the credential's title or username
HasSubstring(doc, q) ==
    \E f \in {"title", "username"} : ContainsIgnoreCase(doc[f].s, q)

\* C2: a list request with query text q returns exactly the stored
\* credentials that have q as a case-insensitive substring of the title or
\* of the username, for every q, the empty text and texts with pattern
\* metacharacters included.
C2_SubstringSearch ==
    (IsList(request) /\ ~IsNone(request.q) /\ ~StoreFailed
        /\ AllMappable(store["credential"])) =>
        \A i \in 1..Len(store["credential"]) :
            \A doc \in {store["credential"][i]} :
                \A listed \in {/\ response.status = 200
                               /\ \E k \in 1..Len(response.body) :
                                     Shows(response.body[k], doc)} :
                    IsCredential(doc) => (HasSubstring(doc, request.q.s) <=> listed)

====
